---- MODULE Spec2Model ----
(***************************************************************************)
(* State-machine model of script.js: ten independent design-pattern        *)
(* demonstrations.  The units that carry state or non-trivial dispatch     *)
(* (Singleton, Decorator, Observer, Chain of Responsibility, Iterator,     *)
(* Command) are modelled, each with its own specification, since the units *)
(* share no state.                                                         *)
(*                                                                         *)
(* Object references are natural numbers (the index of the object in the   *)
(* unit's heap); Null (0) is JavaScript's null.                            *)
(***************************************************************************)
EXTENDS Integers, Sequences, FiniteSets, TLC

Null == 0

\* ----------------------------------------------------------------- bounds
\* Number of calls made on the Singleton class.
MaxCalls == 4
\* Number of distinct outcomes of Math.random() that are told apart.
NumRandom == 2

\* Number of items a Collection may hold.
MaxItems == 3
\* Number of handlers constructed.
MaxHandlers == 3
\* Number of addObserver calls.
MaxObservers == 3
\* Number of receiver calls made through the RemoteControl.
MaxPresses == 3
\* Number of Coffee and decorator objects constructed.
MaxComponents == 5

VARIABLES
  \* Singleton
  instance,   \* Singleton.#instance: Null or a reference into sHeap
  sHeap,      \* every Singleton object ever constructed; sHeap[r] is its value field
  sLog,       \* history: one record per call made on the Singleton class
  \* Iterator
  arrays,     \* the heap of JavaScript arrays; arrays[r] is the content of array r
  iter,       \* the Iterator object: its collection reference and its index
  snapshot,   \* history: the collection's content when getIterator() was called
  yielded,    \* history: the values next() has returned so far
  iLast,      \* history: the last call on the Collection or the Iterator
  \* Chain of Responsibility
  handlers,   \* every handler constructed; handlers[r] is its class and nextHandler
  hLast,      \* history: the last handle() call, its result and the handlers it ran
  \* Observer
  observers,  \* Subject.observers
  added,      \* history: the arguments of the addObserver calls, in call order
  oLast,      \* history: the last notifyObservers call and the update() calls it made
  \* Command
  command,    \* RemoteControl.command
  lastSet,    \* history: the argument of the most recent setCommand
  console,    \* the receiver calls made so far, in order
  cLast,      \* history: the last call on the RemoteControl and the receiver calls it made
  failedPress,\* history: whether a pressButton() on the null command has failed
  \* Decorator
  comps,      \* every component constructed; comps[r] is its class and wrapped component
  dLast       \* history: the last cost() call and its result

singletonVars == <<instance, sHeap, sLog>>
iteratorVars == <<arrays, iter, snapshot, yielded, iLast>>

chainVars == <<handlers, hLast>>
observerVars == <<observers, added, oLast>>
commandVars == <<command, lastSet, console, cLast, failedPress>>
decoratorVars == <<comps, dLast>>

vars ==
  <<singletonVars, iteratorVars, chainVars, observerVars, commandVars, decoratorVars>>

notSingleton == <<iteratorVars, chainVars, observerVars, commandVars, decoratorVars>>
notIterator == <<singletonVars, chainVars, observerVars, commandVars, decoratorVars>>
notChain == <<singletonVars, iteratorVars, observerVars, commandVars, decoratorVars>>
notObserver == <<singletonVars, iteratorVars, chainVars, commandVars, decoratorVars>>
notCommand == <<singletonVars, iteratorVars, chainVars, observerVars, decoratorVars>>
notDecorator == <<singletonVars, iteratorVars, chainVars, observerVars, commandVars>>

\* =================================================================
\* SINGLETON (script.js 2-25)
\* =================================================================

\* Math.random(): a number in [0,1); distinct outcomes are 0 .. NumRandom-1.
RandomValues == 0 .. (NumRandom - 1)

\* A constructor without the guard.
ConstructorThrowsNever(inst) == FALSE

\* `if (Singleton.#instance)` of the constructor: an object is truthy, null is not.
ConstructorThrows(inst) == inst # Null

\* `if (!Singleton.#instance)` of getInstance.
NeedsCreate(inst) == inst = Null

SCall(op, threw, obj, value) ==
  [op |-> op, threw |-> threw, obj |-> obj, value |-> value]

SingletonInit ==
  /\ instance = Null
  /\ sHeap = <<>>
  /\ sLog = <<>>

\* A getInstance() without the lazy check: every call builds and stores a
\* fresh object.
GetInstanceFresh ==
  /\ Len(sLog) < MaxCalls
  /\ \E v \in RandomValues :
       /\ sHeap' = Append(sHeap, v)
       /\ instance' = Len(sHeap) + 1
       /\ sLog' = Append(sLog, SCall("getInstance", FALSE, Len(sHeap) + 1, v))
  /\ UNCHANGED notSingleton

\* Singleton.getInstance(): creates the instance when there is none (the
\* constructor runs, and draws the value), then returns Singleton.#instance.
\* The log keeps the returned reference and the value read from it.
GetInstance ==
  /\ Len(sLog) < MaxCalls
  /\ IF NeedsCreate(instance)
       THEN IF ConstructorThrows(instance)
              THEN /\ sLog' = Append(sLog, SCall("getInstance", TRUE, Null, Null))
                   /\ UNCHANGED <<instance, sHeap>>
              ELSE \E v \in RandomValues :
                     /\ sHeap' = Append(sHeap, v)
                     /\ instance' = Len(sHeap) + 1
                     /\ sLog' = Append(sLog,
                                  SCall("getInstance", FALSE, Len(sHeap) + 1, v))
       ELSE /\ sLog' = Append(sLog,
                         SCall("getInstance", FALSE, instance, sHeap[instance]))
            /\ UNCHANGED <<instance, sHeap>>
  /\ UNCHANGED notSingleton

\* `new Singleton()` from outside the class: throws when #instance is set,
\* otherwise constructs an object that is NOT stored in #instance.
NewSingleton ==
  /\ Len(sLog) < MaxCalls
  /\ IF ConstructorThrows(instance)
       THEN /\ sLog' = Append(sLog, SCall("new", TRUE, Null, Null))
            /\ UNCHANGED <<instance, sHeap>>
       ELSE \E v \in RandomValues :
              /\ sHeap' = Append(sHeap, v)
              /\ sLog' = Append(sLog, SCall("new", FALSE, Len(sHeap) + 1, v))
              /\ UNCHANGED instance
  /\ UNCHANGED notSingleton

\* =================================================================
\* ITERATOR (script.js 299-343)
\* =================================================================

\* The values the usage script adds to the collection.
Items == {"Item 1", "Item 2"}

\* What JavaScript yields for an array index that is out of range.
Undefined == "undefined"

\* The array `this.items = []` of the one Collection object.
ItemsRef == 1

\* arr[i] for a JavaScript (0-based) index i.
ArrGet(arr, i) == IF (i + 1) \in DOMAIN arr THEN arr[i + 1] ELSE Undefined

NoIterator == [created |-> FALSE, collection |-> Null, index |-> 0]

\* Iterator's constructor: keeps the reference it is given, index 0.
NewIterator(coll) == [created |-> TRUE, collection |-> coll, index |-> 0]

ICall(op, threw, flag, ret) ==
  [op |-> op, threw |-> threw, flag |-> flag, ret |-> ret]

\* An off-by-one hasNext().
HasNextInclusive(it) == it.index <= Len(arrays[it.collection])

\* hasNext(): this.index < this.collection.length
HasNext(it) == it.index < Len(arrays[it.collection])

IteratorInit ==
  /\ arrays = << <<>> >>
  /\ iter = NoIterator
  /\ snapshot = <<>>
  /\ yielded = <<>>
  /\ iLast = ICall("none", FALSE, FALSE, Undefined)

\* Collection.add(item): this.items.push(item)
Add ==
  /\ Len(arrays[ItemsRef]) < MaxItems
  /\ \E item \in Items :
       arrays' = [arrays EXCEPT ![ItemsRef] = Append(@, item)]
  /\ iLast' = ICall("add", FALSE, FALSE, Undefined)
  /\ UNCHANGED <<iter, snapshot, yielded>>
  /\ UNCHANGED notIterator

\* A getIterator() that hands the iterator a copy of the items.
GetIteratorCopy ==
  /\ ~iter.created
  /\ arrays' = Append(arrays, arrays[ItemsRef])
  /\ iter' = NewIterator(Len(arrays) + 1)
  /\ snapshot' = arrays[ItemsRef]
  /\ iLast' = ICall("getIterator", FALSE, FALSE, Undefined)
  /\ UNCHANGED yielded
  /\ UNCHANGED notIterator

\* Collection.getIterator(): new Iterator(this.items); the iterator shares the
\* collection's array.
GetIterator ==
  /\ ~iter.created
  /\ iter' = NewIterator(ItemsRef)
  /\ snapshot' = arrays[ItemsRef]
  /\ iLast' = ICall("getIterator", FALSE, FALSE, Undefined)
  /\ UNCHANGED <<arrays, yielded>>
  /\ UNCHANGED notIterator

\* A call of iterator.hasNext().
CallHasNext ==
  /\ iter.created
  /\ iLast' = ICall("hasNext", FALSE, HasNext(iter), Undefined)
  /\ UNCHANGED <<arrays, iter, snapshot, yielded>>
  /\ UNCHANGED notIterator

\* A call of iterator.next(): returns collection[index++] or throws.
CallNext ==
  /\ iter.created
  /\ IF HasNext(iter)
       THEN LET v == ArrGet(arrays[iter.collection], iter.index) IN
            /\ iter' = [iter EXCEPT !.index = @ + 1]
            /\ yielded' = Append(yielded, v)
            /\ iLast' = ICall("next", FALSE, FALSE, v)
       ELSE /\ iLast' = ICall("next", TRUE, FALSE, Undefined)
            /\ UNCHANGED <<iter, yielded>>
  /\ UNCHANGED <<arrays, snapshot>>
  /\ UNCHANGED notIterator

\* =================================================================
\* CHAIN OF RESPONSIBILITY (script.js 246-296)
\* =================================================================

HandlerClasses ==
  {"Handler", "LowLevelHandler", "MediumLevelHandler", "HighLevelHandler"}

Requests == {"low", "medium", "high", "unknown"}

NoHandlerAvailable == "No handler available for this request."

\* The outcome of a handle() call: the string returned and the handlers whose
\* handle() ran, in call order.
HResult(ret, visited) == [ret |-> ret, visited |-> visited]

RECURSIVE Handle(_, _)

\* A base handle() that never forwards.
BaseHandleNoForward(h, request) == HResult(NoHandlerAvailable, <<>>)

\* Handler.handle(request): forwards to nextHandler when there is one.
BaseHandle(h, request) ==
  IF handlers[h].nextHandler # Null
    THEN Handle(handlers[h].nextHandler, request)
    ELSE HResult(NoHandlerAvailable, <<>>)

\* LowLevelHandler.handle
LowHandle(h, request) ==
  IF request = "low"
    THEN HResult("Handled by LowLevelHandler", <<>>)
    ELSE BaseHandle(h, request)

\* MediumLevelHandler.handle
MediumHandle(h, request) ==
  IF request = "medium"
    THEN HResult("Handled by MediumLevelHandler", <<>>)
    ELSE BaseHandle(h, request)

\* HighLevelHandler.handle
HighHandle(h, request) ==
  IF request = "high"
    THEN HResult("Handled by HighLevelHandler", <<>>)
    ELSE BaseHandle(h, request)

\* h.handle(request), dispatched on the class of h.
Handle(h, request) ==
  LET r == CASE handlers[h].class = "LowLevelHandler" -> LowHandle(h, request)
             [] handlers[h].class = "MediumLevelHandler" -> MediumHandle(h, request)
             [] handlers[h].class = "HighLevelHandler" -> HighHandle(h, request)
             [] OTHER -> BaseHandle(h, request)
  IN HResult(r.ret, <<h>> \o r.visited)

NoHandle == [head |-> Null, request |-> "unknown", ret |-> "", visited |-> <<>>]

ChainInit ==
  /\ handlers = <<>>
  /\ hLast = NoHandle

\* new <class>(nextHandler): nextHandler is null (the default) or a handler
\* constructed earlier.
NewHandler ==
  /\ Len(handlers) < MaxHandlers
  /\ \E class \in HandlerClasses, next \in {Null} \cup DOMAIN handlers :
       handlers' = Append(handlers, [class |-> class, nextHandler |-> next])
  /\ UNCHANGED hLast
  /\ UNCHANGED notChain

\* A call h.handle(request) on any handler.
CallHandle ==
  /\ \E h \in DOMAIN handlers, request \in Requests :
       LET r == Handle(h, request) IN
       hLast' = [head |-> h, request |-> request,
                 ret |-> r.ret, visited |-> r.visited]
  /\ UNCHANGED handlers
  /\ UNCHANGED notChain

\* =================================================================
\* OBSERVER (script.js 205-243)
\* =================================================================

ObserverNames == {"Observer 1", "Observer 2", "Observer 3"}

Messages == {"Hello Observers!", "Bye"}

\* An addObserver that skips an observer already in the list.
PushUnique(list, o) ==
  IF \E i \in DOMAIN list : list[i] = o THEN list ELSE Append(list, o)

\* this.observers.push(observer)
Push(list, o) == Append(list, o)

\* observer.update(message): prints `${this.name} received: ${message}`.
Update(name, message) == [observer |-> name, message |-> message]

\* this.observers.forEach(observer => observer.update(message))
ForEachUpdate(list, message) ==
  [i \in 1 .. Len(list) |-> Update(list[i], message)]

NoNotify ==
  [notified |-> FALSE, message |-> "", count |-> 0, updates |-> <<>>]

ObserverInit ==
  /\ observers = <<>>
  /\ added = <<>>
  /\ oLast = NoNotify

\* subject.addObserver(observer)
AddObserver ==
  /\ Len(added) < MaxObservers
  /\ \E o \in ObserverNames :
       /\ observers' = Push(observers, o)
       /\ added' = Append(added, o)
  /\ UNCHANGED oLast
  /\ UNCHANGED notObserver

\* subject.notifyObservers(message)
NotifyObservers ==
  /\ \E message \in Messages :
       oLast' = [notified |-> TRUE, message |-> message, count |-> Len(added),
                 updates |-> ForEachUpdate(observers, message)]
  /\ UNCHANGED <<observers, added>>
  /\ UNCHANGED notObserver

\* =================================================================
\* COMMAND (script.js 346-454)
\* =================================================================

Cmd(class, receiver) == [class |-> class, receiver |-> receiver]

\* `this.command = null`
NullCommand == Cmd("null", "none")

\* new Command(): the base class, whose execute() throws.
AbstractCommand == Cmd("Command", "none")

\* The four commands of the usage script.
lightOn == Cmd("LightOnCommand", "light")
lightOff == Cmd("LightOffCommand", "light")
tvOn == Cmd("TVOnCommand", "tv")
tvOff == Cmd("TVOffCommand", "tv")

ConcreteCommands == {lightOn, lightOff, tvOn, tvOff}

Commands == ConcreteCommands \cup {AbstractCommand}

\* A call of a receiver's method (Light.turnOn prints 'Light is ON', ...).
ReceiverCall(receiver, method) == [receiver |-> receiver, method |-> method]

\* The outcome of execute(): whether it threw, and the receiver calls it made.
XResult(threw, calls) == [threw |-> threw, calls |-> calls]

\* An execute() in which every command turns its receiver on.
ExecuteAlwaysOn(c) ==
  IF c.class = "Command"
    THEN XResult(TRUE, <<>>)
    ELSE XResult(FALSE, <<ReceiverCall(c.receiver, "turnOn")>>)

\* c.execute(), dispatched on the class of c.
Execute(c) ==
  CASE c.class = "LightOnCommand" ->
         XResult(FALSE, <<ReceiverCall(c.receiver, "turnOn")>>)
    [] c.class = "LightOffCommand" ->
         XResult(FALSE, <<ReceiverCall(c.receiver, "turnOff")>>)
    [] c.class = "TVOnCommand" ->
         XResult(FALSE, <<ReceiverCall(c.receiver, "turnOn")>>)
    [] c.class = "TVOffCommand" ->
         XResult(FALSE, <<ReceiverCall(c.receiver, "turnOff")>>)
    [] OTHER -> XResult(TRUE, <<>>)

\* A pressButton() that does nothing, silently, when no command is set.
ExecuteOnNullSilent == XResult(FALSE, <<>>)

\* `this.command.execute()` with this.command null: a TypeError.
ExecuteOnNull == XResult(TRUE, <<>>)

CCall(op, threw, calls) == [op |-> op, threw |-> threw, calls |-> calls]

CommandInit ==
  /\ command = NullCommand
  /\ lastSet = NullCommand
  /\ console = <<>>
  /\ cLast = CCall("none", FALSE, <<>>)
  /\ failedPress = FALSE

\* remote.setCommand(command)
SetCommand ==
  /\ \E c \in Commands :
       /\ command' = c
       /\ lastSet' = c
  /\ UNCHANGED <<console, failedPress>>
  /\ cLast' = CCall("setCommand", FALSE,
                    SubSeq(console', Len(console) + 1, Len(console')))
  /\ UNCHANGED notCommand

\* remote.pressButton(): this.command.execute()
PressButton ==
  /\ Len(console) < MaxPresses
  /\ LET r == IF command = NullCommand THEN ExecuteOnNull ELSE Execute(command) IN
       /\ console' = console \o r.calls
       /\ cLast' = CCall("pressButton", r.threw,
                         SubSeq(console', Len(console) + 1, Len(console')))
       /\ failedPress' = (failedPress \/ (command = NullCommand /\ r.threw))
  /\ UNCHANGED <<command, lastSet>>
  /\ UNCHANGED notCommand

\* =================================================================
\* DECORATOR (script.js 102-136)
\* =================================================================

\* Coffee.cost(): return 5
BaseCost == 5

\* MilkDecorator.cost(): ... + 2
MilkIncrement == 2

\* A sugar that costs as much as milk.
SugarIncrementAsMilk == MilkIncrement

\* SugarDecorator.cost(): ... + 1
SugarIncrement == 1

RECURSIVE Cost(_)

\* c.cost(), dispatched on the class of c.
Cost(c) ==
  CASE comps[c].class = "Coffee" -> BaseCost
    [] comps[c].class = "MilkDecorator" -> Cost(comps[c].coffee) + MilkIncrement
    [] comps[c].class = "SugarDecorator" -> Cost(comps[c].coffee) + SugarIncrement

DecoratorInit ==
  /\ comps = <<>>
  /\ dLast = [obj |-> Null, cost |-> 0]

\* new Coffee()
NewCoffee ==
  /\ Len(comps) < MaxComponents
  /\ comps' = Append(comps, [class |-> "Coffee", coffee |-> Null])
  /\ UNCHANGED dLast
  /\ UNCHANGED notDecorator

\* new MilkDecorator(coffee), coffee a component constructed earlier
NewMilkDecorator ==
  /\ Len(comps) < MaxComponents
  /\ \E inner \in DOMAIN comps :
       comps' = Append(comps, [class |-> "MilkDecorator", coffee |-> inner])
  /\ UNCHANGED dLast
  /\ UNCHANGED notDecorator

\* new SugarDecorator(coffee), coffee a component constructed earlier
NewSugarDecorator ==
  /\ Len(comps) < MaxComponents
  /\ \E inner \in DOMAIN comps :
       comps' = Append(comps, [class |-> "SugarDecorator", coffee |-> inner])
  /\ UNCHANGED dLast
  /\ UNCHANGED notDecorator

\* A call c.cost() on any component.
CallCost ==
  /\ \E c \in DOMAIN comps : dLast' = [obj |-> c, cost |-> Cost(c)]
  /\ UNCHANGED comps
  /\ UNCHANGED notDecorator

\* =================================================================
\* Specifications: the units share no state, one specification each.
\* =================================================================

Init ==
  /\ SingletonInit
  /\ IteratorInit
  /\ ChainInit
  /\ ObserverInit
  /\ CommandInit
  /\ DecoratorInit

NextSingleton ==
  \/ GetInstance
  \/ NewSingleton

SpecSingleton == Init /\ [][NextSingleton]_vars

NextIterator ==
  \/ Add
  \/ GetIterator
  \/ CallHasNext
  \/ CallNext

SpecIterator == Init /\ [][NextIterator]_vars

NextChain ==
  \/ NewHandler
  \/ CallHandle

SpecChain == Init /\ [][NextChain]_vars

NextObserver ==
  \/ AddObserver
  \/ NotifyObservers

SpecObserver == Init /\ [][NextObserver]_vars

NextCommand ==
  \/ SetCommand
  \/ PressButton

SpecCommand == Init /\ [][NextCommand]_vars

NextDecorator ==
  \/ NewCoffee
  \/ NewMilkDecorator
  \/ NewSugarDecorator
  \/ CallCost

SpecDecorator == Init /\ [][NextDecorator]_vars

\* =================================================================
\* Claims
\* =================================================================

GetInstanceCalls == {i \in DOMAIN sLog : sLog[i].op = "getInstance"}

\* C1: every getInstance() call returns the one object held in
\* Singleton.#instance and reads the same value from it; the instance is created
\* by the first call and never replaced or regenerated.
C1_SameInstanceAndValue ==
  \A i \in GetInstanceCalls :
    /\ ~sLog[i].threw
    /\ sLog[i].obj # Null
    /\ sLog[i].obj = instance
    /\ sLog[i].value = sHeap[instance]
    /\ \A j \in GetInstanceCalls :
         sLog[j].obj = sLog[i].obj /\ sLog[j].value = sLog[i].value

C1_Witness == Cardinality(GetInstanceCalls) >= 3

\* C2 (as claimed): at most one Singleton object is ever created, and it is the
\* one getInstance() returns.
C2_AtMostOneObject ==
  /\ Len(sHeap) <= 1
  /\ \A i \in GetInstanceCalls : sLog[i].obj = 1

LastS == sLog'[Len(sLog')]

\* C3: once the shared instance exists, a direct `new Singleton()` throws,
\* creates no object and leaves the instance and its value unchanged, and a
\* getInstance() that follows returns the original instance and value.
C3_DirectNewFails ==
  [][(instance # Null /\ Len(sLog') = Len(sLog) + 1) =>
       /\ instance' = instance
       /\ sHeap' = sHeap
       /\ (LastS.op = "new" => LastS.threw /\ LastS.obj = Null)
       /\ (LastS.op = "getInstance" =>
             /\ ~LastS.threw
             /\ LastS.obj = instance
             /\ LastS.value = sHeap[instance])]_vars

C3_Witness ==
  \E i, j, k \in DOMAIN sLog :
    /\ i < j /\ j < k
    /\ sLog[i].op = "getInstance"
    /\ sLog[j].op = "new" /\ sLog[j].threw
    /\ sLog[k].op = "getInstance" /\ sLog[k].obj = sLog[i].obj

IterLive == arrays[ItemsRef]

Unmodified == iter.created /\ IterLive = snapshot

IsPrefix(s, t) == Len(s) <= Len(t) /\ s = SubSeq(t, 1, Len(s))

\* C4: for an iterator over a collection of k items that is not modified after
\* getIterator(): hasNext() is true exactly while fewer than k items have been
\* returned, the i-th next() returns the i-th item, and next() throws (and
\* returns nothing) once k items have been returned.
C4_TraversalInOrder ==
  Unmodified =>
    LET k == Len(snapshot)
        n == Len(yielded)
    IN /\ IsPrefix(yielded, snapshot)
       /\ iter.index = n
       /\ HasNext(iter) = (n < k)
       /\ (iLast.op = "hasNext" => iLast.flag = (n < k))
       /\ (iLast.op = "next" /\ iLast.threw => n = k)
       /\ (iLast.op = "next" /\ ~iLast.threw => n >= 1 /\ iLast.ret = snapshot[n])

C4_Witness ==
  /\ Unmodified
  /\ Len(snapshot) = 3
  /\ Len(yielded) = 3
  /\ iLast.op = "next" /\ iLast.threw

\* C5 (as claimed): the iterator yields only items that were in the collection
\* when getIterator() was called; later additions are never returned and never
\* make hasNext() true.
C5_Snapshot ==
  iter.created =>
    /\ IsPrefix(yielded, snapshot)
    /\ (HasNext(iter) => Len(yielded) < Len(snapshot))

\* C5 (amended): the iterator traverses the collection's live array: it yields,
\* in insertion order, the items present at getIterator() and then the items
\* added afterwards, and hasNext() is true exactly while fewer items have been
\* returned than the collection holds now.
C5_LiveView ==
  iter.created =>
    /\ IsPrefix(snapshot, IterLive)
    /\ IsPrefix(yielded, IterLive)
    /\ HasNext(iter) = (Len(yielded) < Len(IterLive))
    /\ (iLast.op = "hasNext" => iLast.flag = (Len(yielded) < Len(IterLive)))

C5_Witness ==
  /\ iter.created
  /\ Len(yielded) > Len(snapshot)
  /\ yielded = IterLive

RECURSIVE ChainOf(_)

\* The handlers reached from h through nextHandler, h first.
ChainOf(h) ==
  IF h = Null THEN <<>> ELSE <<h>> \o ChainOf(handlers[h].nextHandler)

\* The predicate of each concrete handler class; the base class has none.
Matches(class, request) ==
  \/ class = "LowLevelHandler" /\ request = "low"
  \/ class = "MediumLevelHandler" /\ request = "medium"
  \/ class = "HighLevelHandler" /\ request = "high"

ResultOf(class) ==
  CASE class = "LowLevelHandler" -> "Handled by LowLevelHandler"
    [] class = "MediumLevelHandler" -> "Handled by MediumLevelHandler"
    [] class = "HighLevelHandler" -> "Handled by HighLevelHandler"
    [] OTHER -> NoHandlerAvailable

ClassesOf(path) == [i \in DOMAIN path |-> handlers[path[i]].class]

LowMediumHigh == <<"LowLevelHandler", "MediumLevelHandler", "HighLevelHandler">>

\* C6: handle(request) on the head of any chain returns the result of the first
\* handler in chain order whose predicate matches, runs no handler after it,
\* and returns the sentinel after running the whole chain when none matches;
\* on low -> medium -> high it answers 'low', 'medium' and 'high' by the
\* handler of that name and everything else by the sentinel.
C6_FirstMatchWins ==
  hLast.head # Null =>
    LET path == ChainOf(hLast.head)
        hits == {i \in DOMAIN path :
                   Matches(handlers[path[i]].class, hLast.request)}
    IN /\ IF hits = {}
            THEN /\ hLast.ret = NoHandlerAvailable
                 /\ hLast.visited = path
            ELSE LET first == CHOOSE i \in hits : \A j \in hits : i <= j IN
                 /\ hLast.ret = ResultOf(handlers[path[first]].class)
                 /\ hLast.visited = SubSeq(path, 1, first)
       /\ ClassesOf(path) = LowMediumHigh =>
            hLast.ret = CASE hLast.request = "low" -> "Handled by LowLevelHandler"
                          [] hLast.request = "medium" -> "Handled by MediumLevelHandler"
                          [] hLast.request = "high" -> "Handled by HighLevelHandler"
                          [] OTHER -> "No handler available for this request."

C6_Witness ==
  /\ hLast.head # Null
  /\ ClassesOf(ChainOf(hLast.head)) = LowMediumHigh
  /\ hLast.request = "medium"
  /\ hLast.ret = "Handled by MediumLevelHandler"
  /\ Len(hLast.visited) = 2

\* C7: the list of observers is exactly the sequence of addObserver arguments,
\* and a notifyObservers(message) makes one update(message) call per
\* addObserver call made before it, in the order of those calls (an observer
\* added k times is updated k times).
C7_NotifyInOrder ==
  /\ observers = added
  /\ oLast.notified =>
       /\ oLast.count <= Len(added)
       /\ Len(oLast.updates) = oLast.count
       /\ \A i \in 1 .. oLast.count :
            oLast.updates[i] = [observer |-> added[i], message |-> oLast.message]

C7_Witness ==
  /\ oLast.notified
  /\ oLast.count = 3
  /\ added[1] = added[3]
  /\ added[1] # added[2]
  /\ Len(oLast.updates) = 3

\* The one receiver method each command of the usage script invokes.
ExpectedCall(c) ==
  CASE c = lightOn -> [receiver |-> "light", method |-> "turnOn"]
    [] c = lightOff -> [receiver |-> "light", method |-> "turnOff"]
    [] c = tvOn -> [receiver |-> "tv", method |-> "turnOn"]
    [] c = tvOff -> [receiver |-> "tv", method |-> "turnOff"]

\* C8: setCommand makes no receiver call; a pressButton() made while the most
\* recent setCommand passed one of the concrete commands makes exactly one
\* receiver call, the method of that command, and none other.
C8_PressRunsLastSet ==
  /\ cLast.op = "setCommand" => cLast.calls = <<>> /\ ~cLast.threw
  /\ (cLast.op = "pressButton" /\ lastSet \in ConcreteCommands) =>
       /\ ~cLast.threw
       /\ cLast.calls = <<ExpectedCall(lastSet)>>
       /\ console # <<>>
       /\ console[Len(console)] = ExpectedCall(lastSet)
  /\ lastSet # NullCommand => command = lastSet

C8_Witness ==
  /\ cLast.op = "pressButton"
  /\ lastSet = lightOff
  /\ console = <<ExpectedCall(lightOn), ExpectedCall(tvOn), ExpectedCall(lightOff)>>

\* C10: before any setCommand the RemoteControl holds null; pressButton() then
\* throws and makes no receiver call, and after such a failure a setCommand(c)
\* followed by pressButton() executes c.
C10_NullPressFails ==
  /\ lastSet = NullCommand =>
       /\ command = NullCommand
       /\ console = <<>>
       /\ (cLast.op = "pressButton" => cLast.threw /\ cLast.calls = <<>> /\ failedPress)
  /\ (failedPress /\ cLast.op = "pressButton" /\ lastSet \in ConcreteCommands) =>
       /\ ~cLast.threw
       /\ cLast.calls = <<ExpectedCall(lastSet)>>

C10_Witness ==
  /\ failedPress
  /\ cLast.op = "pressButton"
  /\ lastSet = tvOn
  /\ console = <<ExpectedCall(tvOn)>>

RECURSIVE Layers(_, _)

\* The number of layers of class `class` in the wrapping chain of c.
Layers(c, class) ==
  IF c = Null
    THEN 0
    ELSE (IF comps[c].class = class THEN 1 ELSE 0) + Layers(comps[c].coffee, class)

RECURSIVE Wrapping(_)

\* The classes of the wrapping chain of c, outermost first.
Wrapping(c) ==
  IF c = Null THEN <<>> ELSE <<comps[c].class>> \o Wrapping(comps[c].coffee)

\* C9: cost() of a chain of m MilkDecorator and s SugarDecorator layers over a
\* Coffee is 5 + 2*m + s whatever the nesting order: 5 for the base, 7 for
\* milk(base), 8 for sugar(milk(base)) and for milk(sugar(base)).
C9_CostIsSumOfLayers ==
  /\ \A c \in DOMAIN comps :
       /\ Cost(c) = 5 + 2 * Layers(c, "MilkDecorator") + Layers(c, "SugarDecorator")
       /\ Wrapping(c) = <<"Coffee">> => Cost(c) = 5
       /\ Wrapping(c) = <<"MilkDecorator", "Coffee">> => Cost(c) = 7
       /\ Wrapping(c) = <<"SugarDecorator", "MilkDecorator", "Coffee">> => Cost(c) = 8
       /\ Wrapping(c) = <<"MilkDecorator", "SugarDecorator", "Coffee">> => Cost(c) = 8
  /\ dLast.obj # Null =>
       dLast.cost = 5 + 2 * Layers(dLast.obj, "MilkDecorator")
                      + Layers(dLast.obj, "SugarDecorator")

C9_Witness ==
  /\ dLast.obj # Null
  /\ Wrapping(dLast.obj) = <<"MilkDecorator", "SugarDecorator", "Coffee">>
  /\ dLast.cost = 8
  /\ \E c \in DOMAIN comps :
       Wrapping(c) = <<"SugarDecorator", "MilkDecorator", "Coffee">>

====
